---- MODULE Spec2Model ----
(***************************************************************************)
(* Polynomial<T> of src/poly.rs, instantiated at T = i64.                  *)
(*                                                                         *)
(* A polynomial is the record [coeffs, deg].  Rust indexes coefficients    *)
(* from 0, TLA+ sequences from 1: the coefficient of x^i is coeffs[i + 1]. *)
(* The operations are pure functions; the state machine is a harness that  *)
(* takes three coefficient vectors, constructs three polynomials and       *)
(* applies one operation to them, recording what the operation produced    *)
(* (a bool, a polynomial, or the panic of a todo!() body).                 *)
(***************************************************************************)
EXTENDS Integers, Sequences, FiniteSets

VARIABLES vecA, vecB, vecC, a, b, c, ctor, pc, op, res, rel

vars == <<vecA, vecB, vecC, a, b, c, ctor, pc, op, res, rel>>

\* Longest coefficient vector the harness enumerates exhaustively.
MaxLen == 3

\* T::zero() and T::one() for T = i64.
CoeffZero == 0

CoeffOne == 1

\* The vectors of mod test: test_from and test_compare_deg.
TestVecs ==
    { <<1, 2, 3, 4, 0, 0, 0, 0, 0, 0>>, <<1, 2, 3, 4>>, <<1, 2, 3, 4, 0, 1>>,
      <<0, 1, 1>>, <<1, 1, 0, 0, 0, 0>> }

\* Every vector over {zero, one} of length 0..MaxLen.
BitVecs == UNION { [1..k -> {CoeffZero, CoeffOne}] : k \in 0..MaxLen }

Inputs == BitVecs \cup TestVecs

----------------------------------------------------------------------------
(* Results of an operation.                                                *)

NoRes == [kind |-> "none", bool |-> FALSE, poly |-> <<>>, msg |-> ""]

RetBool(x) == [kind |-> "bool", bool |-> x, poly |-> <<>>, msg |-> ""]

RetPoly(p) == [kind |-> "poly", bool |-> FALSE, poly |-> p, msg |-> ""]

\* todo!() panics with "not yet implemented"; nothing is returned.
Todo == [kind |-> "panic", bool |-> FALSE, poly |-> <<>>, msg |-> "not yet implemented"]

----------------------------------------------------------------------------
(* Construction.                                                           *)

Deg(p) == p.deg

Coeffs(p) == p.coeffs

Default == [coeffs |-> <<>>, deg |-> 0]

New == Default

\* Option::None of rposition.
None == -1

RECURSIVE RScan(_, _)
RScan(vec, i) ==
    IF i < 0 THEN None
    ELSE IF vec[i + 1] # CoeffZero THEN i
    ELSE RScan(vec, i - 1)

RECURSIVE FScan(_, _)
FScan(vec, i) ==
    IF i >= Len(vec) THEN None
    ELSE IF vec[i + 1] # CoeffZero THEN i
    ELSE FScan(vec, i + 1)

\* Mutant of RPosition: position() instead of rposition(), the lowest index.
PositionFirst(vec) == FScan(vec, 0)

\* vec.iter().rposition(|coeff| *coeff != T::zero())
RPosition(vec) == RScan(vec, Len(vec) - 1)

From(vec) ==
    IF vec = <<>> THEN Default
    ELSE LET r == RPosition(vec)
             degree == IF r # None THEN r ELSE 0
         IN  [coeffs |-> vec, deg |-> degree]

----------------------------------------------------------------------------
(* Degree comparison and equality.                                         *)

\* Mutant of CompareDeg: compares the lengths of the backing storage.
CompareDegByLen(self, other) == Len(Coeffs(self)) >= Len(Coeffs(other))

CompareDeg(self, other) ==
    LET self_deg == Deg(self)
        other_deg == Deg(other)
    IN  IF self_deg >= other_deg THEN TRUE ELSE FALSE

Min(x, y) == IF x <= y THEN x ELSE y

\* coeffs.iter().enumerate().take(n): the pairs (index, coefficient), at most n.
EnumTake(v, n) == [i \in 1..Min(n, Len(v)) |-> <<i - 1, v[i]>>]

\* Iterator::eq: walk both, unequal on the first differing pair or when one
\* iterator ends before the other.
RECURSIVE IterEqFrom(_, _, _)
IterEqFrom(xs, ys, i) ==
    IF i > Len(xs) THEN i > Len(ys)
    ELSE IF i > Len(ys) THEN FALSE
    ELSE IF xs[i] # ys[i] THEN FALSE
    ELSE IterEqFrom(xs, ys, i + 1)

IterEq(xs, ys) == IterEqFrom(xs, ys, 1)

\* Mutant of PolyEq: the take() on the right-hand iterator is forgotten.
PolyEqNoTakeRhs(self, other) ==
    IF Deg(self) = Deg(other)
    THEN IterEq(EnumTake(Coeffs(self), Deg(self) + 1),
                EnumTake(Coeffs(other), Len(Coeffs(other))))
    ELSE FALSE

PolyEq(self, other) ==
    LET lhs_deg == Deg(self)
        rhs_deg == Deg(other)
    IN  IF lhs_deg = rhs_deg
        THEN IterEq(EnumTake(Coeffs(self), lhs_deg + 1),
                    EnumTake(Coeffs(other), lhs_deg + 1))
        ELSE FALSE

PolyNe(self, other) == ~PolyEq(self, other)

----------------------------------------------------------------------------
(* Identities.                                                             *)

One == From(<<CoeffOne>>)

IsOne(self) == IF PolyEq(self, One) THEN TRUE ELSE FALSE

Zero == From(<<CoeffZero>>)

IsZero(self) == IF PolyEq(self, Zero) THEN TRUE ELSE FALSE

----------------------------------------------------------------------------
(* Arithmetic.  Each returns a result record: the bodies are todo!().      *)

MulPadSecond(self, rhs) == Todo

AddPadSecond(self, rhs) == Todo

Add(self, rhs) ==
    IF CompareDeg(self, rhs)
    THEN AddPadSecond(self, rhs)
    ELSE AddPadSecond(rhs, self)

Neg(self) == Todo

\* self + (-rhs): the negation is evaluated first, and its panic unwinds.
Sub(self, rhs) ==
    LET n == Neg(rhs)
    IN  IF n.kind = "panic" THEN n ELSE Add(self, n.poly)

Mul(self, rhs) == Todo

Div(self, rhs) == Todo

Rem(self, rhs) == Todo

----------------------------------------------------------------------------
(* The harness.                                                            *)

NoRel == [aa |-> FALSE, ab |-> FALSE, ba |-> FALSE, bc |-> FALSE, ac |-> FALSE]

Init ==
    /\ vecA \in Inputs
    /\ vecB \in Inputs
    /\ vecC \in BitVecs
    /\ a = New
    /\ b = New
    /\ c = New
    /\ ctor = "none"
    /\ pc = "start"
    /\ op = "none"
    /\ res = NoRes
    /\ rel = NoRel

\* let a = Polynomial::from(vecA); ... for the three vectors.
FromVecs ==
    /\ pc = "start"
    /\ a' = From(vecA)
    /\ b' = From(vecB)
    /\ c' = From(vecC)
    /\ ctor' = "from"
    /\ pc' = "built"
    /\ UNCHANGED <<vecA, vecB, vecC, op, res, rel>>

\* let a = Polynomial::new(); b and c are built from their vectors.
NewA ==
    /\ pc = "start"
    /\ a' = New
    /\ b' = From(vecB)
    /\ c' = From(vecC)
    /\ ctor' = "new"
    /\ pc' = "built"
    /\ UNCHANGED <<vecA, vecB, vecC, op, res, rel>>

\* a == b
DoEq ==
    /\ pc = "built"
    /\ op' = "eq"
    /\ res' = RetBool(PolyEq(a, b))
    /\ pc' = "done"
    /\ UNCHANGED <<vecA, vecB, vecC, a, b, c, ctor, rel>>

\* a != b
DoNe ==
    /\ pc = "built"
    /\ op' = "ne"
    /\ res' = RetBool(PolyNe(a, b))
    /\ pc' = "done"
    /\ UNCHANGED <<vecA, vecB, vecC, a, b, c, ctor, rel>>

\* Polynomial::compare_deg(&a, &b)
DoCompareDeg ==
    /\ pc = "built"
    /\ op' = "compare_deg"
    /\ res' = RetBool(CompareDeg(a, b))
    /\ pc' = "done"
    /\ UNCHANGED <<vecA, vecB, vecC, a, b, c, ctor, rel>>

\* a.is_zero()
DoIsZero ==
    /\ pc = "built"
    /\ op' = "is_zero"
    /\ res' = RetBool(IsZero(a))
    /\ pc' = "done"
    /\ UNCHANGED <<vecA, vecB, vecC, a, b, c, ctor, rel>>

\* a.is_one()
DoIsOne ==
    /\ pc = "built"
    /\ op' = "is_one"
    /\ res' = RetBool(IsOne(a))
    /\ pc' = "done"
    /\ UNCHANGED <<vecA, vecB, vecC, a, b, c, ctor, rel>>

\* a + b
DoAdd ==
    /\ pc = "built"
    /\ op' = "add"
    /\ res' = Add(a, b)
    /\ pc' = "done"
    /\ UNCHANGED <<vecA, vecB, vecC, a, b, c, ctor, rel>>

\* -a
DoNeg ==
    /\ pc = "built"
    /\ op' = "neg"
    /\ res' = Neg(a)
    /\ pc' = "done"
    /\ UNCHANGED <<vecA, vecB, vecC, a, b, c, ctor, rel>>

\* a - b
DoSub ==
    /\ pc = "built"
    /\ op' = "sub"
    /\ res' = Sub(a, b)
    /\ pc' = "done"
    /\ UNCHANGED <<vecA, vecB, vecC, a, b, c, ctor, rel>>

\* a * b
DoMul ==
    /\ pc = "built"
    /\ op' = "mul"
    /\ res' = Mul(a, b)
    /\ pc' = "done"
    /\ UNCHANGED <<vecA, vecB, vecC, a, b, c, ctor, rel>>

\* a / b
DoDiv ==
    /\ pc = "built"
    /\ op' = "div"
    /\ res' = Div(a, b)
    /\ pc' = "done"
    /\ UNCHANGED <<vecA, vecB, vecC, a, b, c, ctor, rel>>

\* a % b
DoRem ==
    /\ pc = "built"
    /\ op' = "rem"
    /\ res' = Rem(a, b)
    /\ pc' = "done"
    /\ UNCHANGED <<vecA, vecB, vecC, a, b, c, ctor, rel>>

\* a == a, a == b, b == a, b == c, a == c, evaluated on the three polynomials.
DoEqRel ==
    /\ pc = "built"
    /\ op' = "eq_rel"
    /\ rel' = [aa |-> PolyEq(a, a), ab |-> PolyEq(a, b), ba |-> PolyEq(b, a),
               bc |-> PolyEq(b, c), ac |-> PolyEq(a, c)]
    /\ pc' = "done"
    /\ UNCHANGED <<vecA, vecB, vecC, a, b, c, ctor, res>>

Next ==
    \/ FromVecs
    \/ NewA
    \/ DoEq
    \/ DoNe
    \/ DoCompareDeg
    \/ DoIsZero
    \/ DoIsOne
    \/ DoAdd
    \/ DoNeg
    \/ DoSub
    \/ DoMul
    \/ DoDiv
    \/ DoRem
    \/ DoEqRel

Spec == Init /\ [][Next]_vars

----------------------------------------------------------------------------
(* Reference notions the properties are stated in: they read the           *)
(* coefficient vectors directly and share nothing with the scans above.    *)

NonzeroIdx(v) == { i \in 0..(Len(v) - 1) : v[i + 1] # CoeffZero }

SetMax(S) == CHOOSE x \in S : \A y \in S : y <= x

\* The highest index holding a nonzero coefficient, 0 when there is none.
HighestNonzero(v) == IF NonzeroIdx(v) = {} THEN 0 ELSE SetMax(NonzeroIdx(v))

AllZero(v) == NonzeroIdx(v) = {}

\* The coefficient of x^i; a coefficient that is not stored is zero.
CoeffAt(p, i) == IF i < Len(p.coeffs) THEN p.coeffs[i + 1] ELSE CoeffZero

IsPrefix(s, t) == Len(s) <= Len(t) /\ SubSeq(t, 1, Len(s)) = s

Tail0(s, t) == SubSeq(t, Len(s) + 1, Len(t))

Max(x, y) == IF x >= y THEN x ELSE y

\* s[i] = a_i + b_i for i in 0..=max(deg a, deg b).
SumSeq(p, q) ==
    [i \in 1..(Max(p.deg, q.deg) + 1) |-> CoeffAt(p, i - 1) + CoeffAt(q, i - 1)]

RECURSIVE ConvAt(_, _, _, _)
ConvAt(p, q, k, i) ==
    IF i > k THEN 0
    ELSE (IF i > p.deg \/ (k - i) > q.deg THEN 0
          ELSE CoeffAt(p, i) * CoeffAt(q, k - i))
         + ConvAt(p, q, k, i + 1)

\* c[k] = sum over i in 0..=k of a_i * b_(k-i), for k in 0..=n+m.
ConvSeq(p, q) == [k \in 1..(p.deg + q.deg + 1) |-> ConvAt(p, q, k - 1, 0)]

\* The units of i64: the coefficients with a multiplicative inverse.
IsUnit(x) == x \in {1, -1}

----------------------------------------------------------------------------
(* Properties.                                                             *)

\* C1: from(s) keeps s as its coefficients, unchanged, and its deg is the
\* highest index of a nonzero coefficient of s, 0 when s is empty or all zero.
C1_FromNormalizes ==
    pc # "start" =>
        /\ ctor = "from" => (a.coeffs = vecA /\ a.deg = HighestNonzero(vecA))
        /\ b.coeffs = vecB /\ b.deg = HighestNonzero(vecB)
        /\ c.coeffs = vecC /\ c.deg = HighestNonzero(vecC)

\* C1 witness: test_from's padded vector is built: degree 3, all 10 kept.
C1_Witness ==
    /\ pc = "built" /\ ctor = "from"
    /\ vecA = <<1, 2, 3, 4, 0, 0, 0, 0, 0, 0>>
    /\ a.deg = 3 /\ Len(a.coeffs) = 10
    /\ vecB = <<0, 0>> /\ b.deg = 0 /\ Len(b.coeffs) = 2

\* C2: when vecB is vecA followed by a tail, from(vecA) == from(vecB) holds
\* if the tail is all zeros (k >= 0 of them, vecA possibly empty) and fails
\* if the tail holds a nonzero coefficient.
C2_TrailingZeroInvariance ==
    (pc = "done" /\ op = "eq" /\ ctor = "from" /\ IsPrefix(vecA, vecB)) =>
        (res.kind = "bool" /\ res.bool = AllZero(Tail0(vecA, vecB)))

\* C3: a == b is true iff the degrees are equal and the coefficients at every
\* index 0..=deg are pairwise equal; a != b is its negation.
C3_EqIffDegAndCoeffs ==
    (pc = "done" /\ op \in {"eq", "ne"}) =>
        LET same == /\ a.deg = b.deg
                    /\ \A i \in 0..a.deg : CoeffAt(a, i) = CoeffAt(b, i)
        IN  res.kind = "bool" /\ res.bool = (IF op = "eq" THEN same ELSE ~same)

\* C4: every representation of the zero polynomial (new(), the empty vector,
\* a vector of zeros) has deg 0 and is_zero, and is_zero(p) is p == zero().
C4_ZeroRepresentations ==
    (pc = "done" /\ op = "is_zero") =>
        /\ res.kind = "bool"
        /\ res.bool = PolyEq(a, Zero)
        /\ (ctor = "new" \/ AllZero(vecA)) => (a.deg = 0 /\ res.bool)

\* C5: equality is reflexive, symmetric and transitive on the three
\* polynomials the harness built.
C5_EqEquivalence ==
    (pc = "done" /\ op = "eq_rel") =>
        /\ rel.aa
        /\ rel.ab = rel.ba
        /\ (rel.ab /\ rel.bc) => rel.ac

\* C5 witness: three equal polynomials over three different backing vectors.
C5_Witness ==
    /\ pc = "done" /\ op = "eq_rel"
    /\ rel.ab /\ rel.ba /\ rel.bc /\ rel.ac
    /\ a.coeffs # b.coeffs /\ b.coeffs # c.coeffs /\ a.coeffs # c.coeffs

\* C6: compare_deg(a, b) is true iff the degree of a (the highest index of a
\* nonzero coefficient, whatever the zero padding) is >= the degree of b.
C6_CompareDeg ==
    (pc = "done" /\ op = "compare_deg") =>
        /\ res.kind = "bool"
        /\ res.bool = (HighestNonzero(a.coeffs) >= HighestNonzero(b.coeffs))

\* C6 witness: test_compare_deg, a = [0,1,1] against the padded b = [1,1,0,0,0,0].
C6_Witness ==
    /\ pc = "done" /\ op = "compare_deg" /\ ctor = "from"
    /\ vecA = <<0, 1, 1>> /\ vecB = <<1, 1, 0, 0, 0, 0>>
    /\ res.bool = TRUE

\* C7: equality, addition, negation, subtraction and multiplication return a
\* value on every input; none ends in a panic.
C7_Total ==
    (pc = "done" /\ op \in {"eq", "ne", "add", "neg", "sub", "mul"}) =>
        res.kind \in {"bool", "poly"}

\* C8: a / b and a % b with b == zero() never return a value, and a nonzero
\* divisor whose leading coefficient has no inverse fails with a signal
\* different from the one division by zero() gives.
C8_DivByZeroFatalDistinct ==
    (pc = "done" /\ op \in {"div", "rem"}) =>
        LET byZero == IF op = "div" THEN Div(a, Zero) ELSE Rem(a, Zero)
        IN  /\ IsZero(b) => res.kind = "panic"
            /\ byZero.kind = "panic"
            /\ (~IsZero(b) /\ ~AllZero(b.coeffs) /\ ~IsUnit(CoeffAt(b, b.deg)))
                   => (res.kind # "poly" /\ res # byZero)

\* C9: a + b is a polynomial equal to from(s), s[i] = a_i + b_i for i in
\* 0..=max(deg a, deg b).
C9_AddIsPairwiseSum ==
    (pc = "done" /\ op = "add") =>
        /\ res.kind = "poly"
        /\ PolyEq(res.poly, From(SumSeq(a, b)))

\* C10: a * b is a polynomial equal to from(c), c the convolution of the
\* coefficients of a and b over 0..=deg a + deg b.
C10_MulIsConvolution ==
    (pc = "done" /\ op = "mul") =>
        /\ res.kind = "poly"
        /\ PolyEq(res.poly, From(ConvSeq(a, b)))

====
